---- MODULE Spec2Model ----
(***************************************************************************)
(* Model of the Discord helper bot: SubjectHelperService (create-subject,  *)
(* become-helper) and SlaveWhipperService (whip-slaves).                   *)
(*                                                                         *)
(* The guild (channels, roles, members' roles) is the shared state; every  *)
(* command invocation constructs its own service object, whose fields and  *)
(* position in the handler are one record of inv.  A handler is cut at     *)
(* its awaits of remote calls, the only places where another invocation    *)
(* or a user's event can interleave.                                       *)
(*                                                                         *)
(* Strings are sequences of one-character strings, so that toLowerCase,    *)
(* includes and endsWith are computed as the code computes them.           *)
(***************************************************************************)
EXTENDS Integers, Sequences, FiniteSets, TLC

VARIABLES
    channels,     \* guild.channels.cache: set of [id, type, name, parentId]
    roles,        \* guild.roles.cache: set of [id, name, color]
    memberRoles,  \* member.roles.cache: user -> set of role ids
    nextId,       \* next identifier the platform hands out
    inv,          \* invocation number -> the invocation's service object and position
    concurrent,   \* environment: may command invocations overlap
    faulty        \* environment: may remote create/grant calls fail

vars == <<channels, roles, memberRoles, nextId, inv, concurrent, faulty>>

----------------------------------------------------------------------------
(* Bounds *)

MaxInv == 3          \* command invocations in one behaviour
MaxNameLen == 2      \* length of a subject name
MaxConcInv == 2      \* command invocations in one behaviour, when they may overlap
MaxFailInv == 2      \* command invocations in one behaviour, when remote calls may fail

Users == {"u1", "u2"}
\* create-subject and whip-slaves do not read who invoked them: one requester stands
\* for all
Moderator == "u1"
Alphabet == {"a", "A"}

----------------------------------------------------------------------------
(* Strings *)

\* String.prototype.toLowerCase, one character
LowerChar(c) == IF c = "A" THEN "a" ELSE c

\* String.prototype.toUpperCase, one character
UpperChar(c) ==
    CASE c = "a" -> "A" [] c = "d" -> "D" [] c = "e" -> "E" [] c = "h" -> "H"
      [] c = "l" -> "L" [] c = "m" -> "M" [] c = "o" -> "O" [] c = "p" -> "P"
      [] c = "r" -> "R" [] OTHER -> c

\* String.prototype.toLowerCase
ToLowerCase(s) == [k \in 1..Len(s) |-> LowerChar(s[k])]

\* String.prototype.includes
Includes(s, sub) ==
    \E k \in 0..(Len(s) - Len(sub)) : SubSeq(s, k + 1, k + Len(sub)) = sub

\* String.prototype.endsWith
EndsWith(s, suf) ==
    /\ Len(suf) <= Len(s)
    /\ SubSeq(s, Len(s) - Len(suf) + 1, Len(s)) = suf

\* String.prototype.slice(from)
Slice(s, from) == SubSeq(s, from + 1, Len(s))

\* String.prototype.replace(pat, ""): the first occurrence of pat is removed
RemoveFirst(s, pat) ==
    IF ~Includes(s, pat) THEN s
    ELSE LET k == CHOOSE k \in 0..(Len(s) - Len(pat)) :
                    /\ SubSeq(s, k + 1, k + Len(pat)) = pat
                    /\ \A j \in 0..(k - 1) : SubSeq(s, j + 1, j + Len(pat)) # pat
         IN  SubSeq(s, 1, k) \o SubSeq(s, k + Len(pat) + 1, Len(s))

HelperSuffix == <<"-", "h", "e", "l", "p", "e", "r">>

\* the subject names tried: up to MaxNameLen letters, written in lower case or
\* capitalized ("a", "A", "aa", "Aa", ...), so that names differ by case only, and
\* one name is part of another
Names ==
    { [k \in 1..n |-> IF k = 1 THEN first ELSE "a"] :
        n \in 1..MaxNameLen, first \in Alphabet }

----------------------------------------------------------------------------
(* Constants of the program *)

CATEGORY_CHANNEL_NAME == <<"h", "e", "l", "p">>
CATEGORY_CHANNEL_TYPE == "category"
FORUM_CHANNEL_TYPE == "forum"

Emoji == "*"
GoodColor == <<"#", "0">>
BadColor == <<"r", "e", "d", "d">>

\* the option objects a create-subject command can carry: every name with a
\* well-formed color and emoji, and one malformed object per field
ValidOptions == {[name |-> n, color |-> GoodColor, emoji |-> <<Emoji>>] : n \in Names}
InvalidOptions ==
    { [name |-> <<>>, color |-> GoodColor, emoji |-> <<Emoji>>],
      [name |-> <<"a">>, color |-> BadColor, emoji |-> <<Emoji>>],
      [name |-> <<"a">>, color |-> GoodColor, emoji |-> <<Emoji, Emoji>>] }
OptionObjects == ValidOptions \cup InvalidOptions
NoOptions == [name |-> <<>>, color |-> <<>>, emoji |-> <<>>]

\* helperSchema.validate: a non-empty name, a color token, a single emoji
helperSchemaValid(o) ==
    /\ Len(o.name) > 0
    /\ o.color = GoodColor
    /\ Len(o.emoji) = 1

----------------------------------------------------------------------------
(* Invocations *)

NoReply == <<>>

Idle ==
    [ kind |-> "none", pc |-> "idle", user |-> "u1", options |-> NoOptions,
      categoryChannelId |-> 0,   \* this.categoryChannelId (0: not set)
      createdCategory |-> 0,     \* id of the category this invocation created
      forum |-> 0,               \* id of the forum channel it created
      role |-> 0,                \* id of the role it created
      existed |-> FALSE,         \* history: at the uniqueness check, a channel under the
                                 \* category held the name (case-insensitive)
      helperRoles |-> {},        \* becomeHelper: the helperRoles array
      values |-> <<>>,           \* becomeHelper: selectedSubjects.values
      selectedRole |-> 0,        \* becomeHelper: selectedRole.id
      adds |-> 0,                \* becomeHelper: completed member.roles.add calls
      ignored |-> FALSE,         \* becomeHelper: history, the filter rejected a selection
      thread |-> 0,              \* whipSlaves: parent channel of interaction.channel
      replies |-> NoReply,       \* messages sent through the interaction, in order
      outcome |-> "none",        \* "none" | "returned" | "threw"
      error |-> "" ]

Msg(kind, a, b) == [kind |-> kind, a |-> a, b |-> b]

Started(i) == inv[i].kind # "none"
Finished(i) == inv[i].pc = "done"
Active(i) == Started(i) /\ ~Finished(i)

\* the platform dispatches the invocations one after another, or, when they may
\* overlap, starts one while at most one other is in flight
CanStart(i) ==
    /\ ~Started(i)
    /\ i <= (IF concurrent THEN MaxConcInv ELSE IF faulty THEN MaxFailInv ELSE MaxInv)
    /\ \A j \in 1..(i - 1) : Started(j)
    /\ LET inFlight == {j \in 1..MaxInv : Active(j)}
       IN  IF concurrent
           THEN \A j, k \in inFlight : j = k
           ELSE inFlight = {}

\* whether a remote create/grant call succeeds
CallResults == IF faulty THEN {TRUE, FALSE} ELSE {TRUE}

Throw(r, err) == [r EXCEPT !.pc = "done", !.outcome = "threw", !.error = err]
Return(r) == [r EXCEPT !.pc = "done", !.outcome = "returned"]

----------------------------------------------------------------------------
(* Guild *)

Init ==
    /\ channels = {}
    /\ roles = {[id |-> 1, name |-> <<"m", "o", "d">>, color |-> <<>>]}
    /\ memberRoles = [u \in Users |-> {}]
    /\ nextId = 2
    /\ inv = [i \in 1..MaxInv |-> Idle]
    /\ concurrent = FALSE
    /\ faulty = FALSE

Update(i, r) == inv' = [inv EXCEPT ![i] = r]

----------------------------------------------------------------------------
(* create-subject: SubjectHelperService.handleCreateSubject *)

\* the dispatcher constructs the service and calls handleCreateSubject
StartCreateSubject(i, u, o) ==
    /\ CanStart(i)
    /\ Update(i, [Idle EXCEPT !.kind = "createSubject", !.pc = "getOptions",
                              !.user = u, !.options = o])
    /\ UNCHANGED <<channels, roles, memberRoles, nextId, concurrent, faulty>>

\* variant of getOptions that does not look at the result of the validation
getOptionsUnchecked(i) ==
    /\ inv[i].kind = "createSubject" /\ inv[i].pc = "getOptions"
    /\ Update(i, [inv[i] EXCEPT !.pc = "isSubjectNameUnique"])
    /\ UNCHANGED <<channels, roles, memberRoles, nextId, concurrent, faulty>>

\* variant of getOptions that replies with the message and does not rethrow
getOptionsNoRethrow(i) ==
    /\ inv[i].kind = "createSubject" /\ inv[i].pc = "getOptions"
    /\ IF helperSchemaValid(inv[i].options)
       THEN Update(i, [inv[i] EXCEPT !.pc = "isSubjectNameUnique"])
       ELSE Update(i, [inv[i] EXCEPT
                !.replies = Append(@, Msg("error", "validation", "ephemeral")),
                !.pc = "isSubjectNameUnique"])
    /\ UNCHANGED <<channels, roles, memberRoles, nextId, concurrent, faulty>>

\* getOptions: validate; on failure reply with the message and rethrow
getOptions(i) ==
    /\ inv[i].kind = "createSubject" /\ inv[i].pc = "getOptions"
    /\ IF helperSchemaValid(inv[i].options)
       THEN Update(i, [inv[i] EXCEPT !.pc = "isSubjectNameUnique"])
       ELSE Update(i, Throw([inv[i] EXCEPT
                !.replies = Append(@, Msg("error", "validation", "ephemeral"))],
                "validation"))
    /\ UNCHANGED <<channels, roles, memberRoles, nextId, concurrent, faulty>>

\* variant of the find that never sees the category
FindCategoryNever(chans) == 0

\* guild.channels.cache.find(c => c.type === CATEGORY_CHANNEL_TYPE &&
\* c.name === CATEGORY_CHANNEL_NAME): the first match in insertion order, 0 for undefined
FindCategory(chans) ==
    LET found == {c \in chans : c.type = CATEGORY_CHANNEL_TYPE
                                /\ c.name = CATEGORY_CHANNEL_NAME}
    IN  IF found = {} THEN 0
        ELSE (CHOOSE c \in found : \A d \in found : c.id <= d.id).id

\* `collection.values.length`: values is the method Map.prototype.values, which the
\* code does not call; the length of a function is its number of declared parameters
ValuesLength(collection) == 0

\* the filter of isSubjectNameUnique
ChannelsNamed(chans, categoryId, subjectName) ==
    {c \in chans : c.parentId = categoryId
                   /\ Includes(c.name, ToLowerCase(subjectName))}

\* history only: a channel under the category holds the name, case-insensitively
ExistsNamed(chans, categoryId, subjectName) ==
    \E c \in chans : /\ c.parentId = categoryId
                     /\ Includes(ToLowerCase(c.name), ToLowerCase(subjectName))

\* isSubjectNameUnique after getCategoryId returned, and the branch of
\* handleCreateSubject on its result
UniqueBranch(r, chans) ==
    LET filtered == ChannelsNamed(chans, r.categoryChannelId, r.options.name)
        unique == (ValuesLength(filtered) = 0)
        seen == [r EXCEPT !.existed =
                    ExistsNamed(chans, r.categoryChannelId, r.options.name)]
    IN  IF ~unique
        THEN Throw([seen EXCEPT
                !.replies = Append(@, Msg("duplicate", "Subject already exists!", "ephemeral"))],
                "Subject already exists!")
        ELSE [seen EXCEPT !.pc = "createSubjectForum"]

\* variant of the creation that drops the channels held before
ChannelsCreateReplacing(chans, c) == {c}

\* variant of the creation that treats a channel of the same type and name as a
\* conflict and creates nothing
ChannelsCreateUnlessNamed(chans, c) ==
    IF \E d \in chans : d.type = c.type /\ d.name = c.name THEN chans ELSE chans \cup {c}

\* guild.channels.create, as the cache sees it: one more channel
ChannelsCreate(chans, c) == chans \cup {c}

\* isSubjectNameUnique up to the first await of getCategoryId: the category is
\* memoized or found in the cache, or its creation is requested
isSubjectNameUnique(i) ==
    /\ inv[i].kind = "createSubject" /\ inv[i].pc = "isSubjectNameUnique"
    /\ LET memo == inv[i].categoryChannelId
           category == FindCategory(channels)
       IN  IF memo # 0
           THEN Update(i, UniqueBranch(inv[i], channels))
           ELSE IF category = 0
           THEN Update(i, [inv[i] EXCEPT !.pc = "createCategory"])
           ELSE Update(i, UniqueBranch([inv[i] EXCEPT !.categoryChannelId = category],
                                       channels))
    /\ UNCHANGED <<channels, roles, memberRoles, nextId, concurrent, faulty>>

\* getCategoryId: guild.channels.create of the category resolves (or rejects), and
\* isSubjectNameUnique goes on
createCategory(i) ==
    /\ inv[i].kind = "createSubject" /\ inv[i].pc = "createCategory"
    /\ \E ok \in CallResults :
         IF ok
         THEN LET chans == ChannelsCreate(channels,
                    [id |-> nextId, type |-> CATEGORY_CHANNEL_TYPE,
                     name |-> CATEGORY_CHANNEL_NAME, parentId |-> 0])
              IN  /\ channels' = chans
                  /\ nextId' = nextId + 1
                  /\ Update(i, UniqueBranch([inv[i] EXCEPT !.categoryChannelId = nextId,
                                                           !.createdCategory = nextId],
                                            chans))
         ELSE /\ Update(i, Throw(inv[i], "remote"))
              /\ UNCHANGED <<channels, nextId>>
    /\ UNCHANGED <<roles, memberRoles, concurrent, faulty>>

\* the name createSubjectForum gives the channel
ForumName(subjectName, emoji) == emoji \o <<"-">> \o subjectName

\* createSubjectForum: getCategoryId returns the memoized id, then
\* guild.channels.create of the forum channel resolves (or rejects)
createSubjectForum(i) ==
    /\ inv[i].kind = "createSubject" /\ inv[i].pc = "createSubjectForum"
    /\ inv[i].categoryChannelId # 0
    /\ \E ok \in CallResults :
         IF ok
         THEN /\ channels' = ChannelsCreate(channels,
                    [id |-> nextId, type |-> FORUM_CHANNEL_TYPE,
                     name |-> ForumName(inv[i].options.name, inv[i].options.emoji),
                     parentId |-> inv[i].categoryChannelId])
              /\ nextId' = nextId + 1
              /\ Update(i, [inv[i] EXCEPT !.forum = nextId, !.pc = "createSubjectRole"])
         ELSE /\ Update(i, Throw(inv[i], "remote"))
              /\ UNCHANGED <<channels, nextId>>
    /\ UNCHANGED <<roles, memberRoles, concurrent, faulty>>

\* variant of the role name without toLowerCase
RoleNameVerbatim(subjectName) == subjectName \o HelperSuffix

\* the name createSubjectRole gives the role
RoleName(subjectName) == ToLowerCase(subjectName) \o HelperSuffix

\* variant of createSubjectRole that deletes the forum channel when the role
\* creation is rejected
createSubjectRoleRollback(i) ==
    /\ inv[i].kind = "createSubject" /\ inv[i].pc = "createSubjectRole"
    /\ \E ok \in CallResults :
         IF ok
         THEN /\ roles' = roles \cup
                    {[id |-> nextId, name |-> RoleName(inv[i].options.name),
                      color |-> inv[i].options.color]}
              /\ nextId' = nextId + 1
              /\ Update(i, [inv[i] EXCEPT !.role = nextId, !.pc = "replyCreated"])
              /\ UNCHANGED channels
         ELSE /\ Update(i, Throw(inv[i], "remote"))
              /\ channels' = {c \in channels : c.id # inv[i].forum}
              /\ UNCHANGED <<roles, nextId>>
    /\ UNCHANGED <<memberRoles, concurrent, faulty>>

\* createSubjectRole: guild.roles.create resolves (or rejects)
createSubjectRole(i) ==
    /\ inv[i].kind = "createSubject" /\ inv[i].pc = "createSubjectRole"
    /\ \E ok \in CallResults :
         IF ok
         THEN /\ roles' = roles \cup
                    {[id |-> nextId, name |-> RoleName(inv[i].options.name),
                      color |-> inv[i].options.color]}
              /\ nextId' = nextId + 1
              /\ Update(i, [inv[i] EXCEPT !.role = nextId, !.pc = "replyCreated"])
         ELSE /\ Update(i, Throw(inv[i], "remote"))
              /\ UNCHANGED <<roles, nextId>>
    /\ UNCHANGED <<channels, memberRoles, concurrent, faulty>>

RoleNamed(id) == (CHOOSE r \in roles : r.id = id).name

\* the reply "Subject <forum.url> and role <role.name> created!"
replyCreated(i) ==
    /\ inv[i].kind = "createSubject" /\ inv[i].pc = "replyCreated"
    /\ Update(i, Return([inv[i] EXCEPT
            !.replies = Append(@, Msg("created", inv[i].forum, RoleNamed(inv[i].role)))]))
    /\ UNCHANGED <<channels, roles, memberRoles, nextId, concurrent, faulty>>

----------------------------------------------------------------------------
(* become-helper: SubjectHelperService.handleBecomeHelper *)

StartBecomeHelper(i, u) ==
    /\ CanStart(i)
    /\ Update(i, [Idle EXCEPT !.kind = "becomeHelper", !.pc = "reply", !.user = u])
    /\ UNCHANGED <<channels, roles, memberRoles, nextId, concurrent, faulty>>

\* the label of a helper role: r.name[0].toUpperCase() + r.name.slice(1).replace("-helper", "")
SubjectLabel(name) == <<UpperChar(name[1])>> \o RemoveFirst(Slice(name, 1), HelperSuffix)

\* variant of helperRoles without the filter on the name
HelperRolesUnfiltered(rs) ==
    { [id |-> r.id, role |-> r.name, subject |-> SubjectLabel(r.name)] : r \in rs }

\* the helperRoles array: the roles whose name ends with "-helper"
HelperRoles(rs) ==
    { [id |-> r.id, role |-> r.name, subject |-> SubjectLabel(r.name)] :
        r \in {q \in rs : EndsWith(q.name, HelperSuffix)} }

\* the select menu is built from the roles and sent as the ephemeral reply; the
\* platform may refuse a menu without options, and the reply then rejects
reply(i) ==
    /\ inv[i].kind = "becomeHelper" /\ inv[i].pc = "reply"
    /\ LET helperRoles == HelperRoles(roles)
       IN  \E accepted \in (IF helperRoles = {} THEN {TRUE, FALSE} ELSE {TRUE}) :
             IF accepted
             THEN Update(i, [inv[i] EXCEPT
                     !.helperRoles = helperRoles,
                     !.replies = Append(@, Msg("select", {r.id : r \in helperRoles}, "ephemeral")),
                     !.pc = "awaitMessageComponent"])
             ELSE Update(i, Throw([inv[i] EXCEPT !.helperRoles = helperRoles], "remote"))
    /\ UNCHANGED <<channels, roles, memberRoles, nextId, concurrent, faulty>>

\* the values a selection on the menu can carry: min_values 0, one value at most
SelectableValues(i) == {<<>>} \cup {<<r.id>> : r \in inv[i].helperRoles}

\* variant of the filter that lets every user through
collectorFilterAnyone(i, u) == TRUE

\* collectorFilter: i.user.id === this.interaction.user.id
collectorFilter(i, u) == u = inv[i].user

\* variant of the lookup that never finds the role
HasRoleNever(u, id) == FALSE

\* member.roles.cache.has(id)
HasRole(u, id) == id \in memberRoles[u]

\* variant of the find that takes the first helper role, whatever was selected
FindSelectedRoleFirst(helperRoles, values) ==
    IF helperRoles = {} THEN 0
    ELSE (CHOOSE r \in helperRoles : \A q \in helperRoles : r.id <= q.id).id

\* helperRoles.find(r => r.id === values[0]): 0 for undefined
FindSelectedRole(helperRoles, values) ==
    IF Len(values) = 0 THEN 0
    ELSE IF \E r \in helperRoles : r.id = values[1] THEN values[1] ELSE 0

\* the handler from the accepted selection to the await of member.roles.add
Selected(r, values) ==
    LET deleted == [r EXCEPT !.values = values,
                             !.replies = Append(@, Msg("deleteReply", "", ""))]
        selectedRole == FindSelectedRole(r.helperRoles, values)
    IN  IF selectedRole = 0
        THEN Throw(deleted, "TypeError")
        ELSE IF HasRole(r.user, selectedRole)
        THEN Return([deleted EXCEPT
                !.selectedRole = selectedRole,
                !.replies = Append(@, Msg("already", selectedRole, "ephemeral"))])
        ELSE [deleted EXCEPT !.selectedRole = selectedRole, !.pc = "add"]

\* user u uses the select menu while the handler waits: the collector drops the
\* event when the filter rejects it, and resolves the wait otherwise
awaitMessageComponent(i, u, values) ==
    /\ inv[i].kind = "becomeHelper" /\ inv[i].pc = "awaitMessageComponent"
    /\ IF collectorFilter(i, u)
       THEN Update(i, Selected(inv[i], values))
       ELSE Update(i, [inv[i] EXCEPT !.ignored = TRUE])
    /\ UNCHANGED <<channels, roles, memberRoles, nextId, concurrent, faulty>>

\* the 10 seconds pass: awaitMessageComponent rejects, the catch block rethrows
timeout(i) ==
    /\ inv[i].kind = "becomeHelper" /\ inv[i].pc = "awaitMessageComponent"
    /\ Update(i, Throw(inv[i], "time"))
    /\ UNCHANGED <<channels, roles, memberRoles, nextId, concurrent, faulty>>

\* GuildMemberRoleManager.add: the member's roles with one more
AddRole(held, id) == held \cup {id}

\* member.roles.add resolves (or rejects)
add(i) ==
    /\ inv[i].kind = "becomeHelper" /\ inv[i].pc = "add"
    /\ \E ok \in CallResults :
         IF ok
         THEN /\ memberRoles' = [memberRoles EXCEPT
                    ![inv[i].user] = AddRole(@, inv[i].selectedRole)]
              /\ Update(i, [inv[i] EXCEPT !.adds = @ + 1, !.pc = "replyCongrats"])
         ELSE /\ Update(i, Throw(inv[i], "remote"))
              /\ UNCHANGED memberRoles
    /\ UNCHANGED <<channels, roles, nextId, concurrent, faulty>>

\* selectedSubjects.reply: the private confirmation
replyCongrats(i) ==
    /\ inv[i].kind = "becomeHelper" /\ inv[i].pc = "replyCongrats"
    /\ Update(i, [inv[i] EXCEPT
            !.replies = Append(@, Msg("congrats", inv[i].selectedRole, "ephemeral")),
            !.pc = "followUp"])
    /\ UNCHANGED <<channels, roles, memberRoles, nextId, concurrent, faulty>>

\* selectedSubjects.followUp: the public announcement
followUp(i) ==
    /\ inv[i].kind = "becomeHelper" /\ inv[i].pc = "followUp"
    /\ Update(i, Return([inv[i] EXCEPT
            !.replies = Append(@, Msg("announce", inv[i].selectedRole, "public"))]))
    /\ UNCHANGED <<channels, roles, memberRoles, nextId, concurrent, faulty>>

----------------------------------------------------------------------------
(* whip-slaves: SlaveWhipperService.handleWhipSlaves *)

\* the channels a whip-slaves command can come from: a thread of a forum channel
\* (named by the forum's id), or a channel that is no thread (0)
Threads == {0} \cup {c.id : c \in {d \in channels : d.type = FORUM_CHANNEL_TYPE}}

StartWhipSlaves(i, u, t) ==
    /\ CanStart(i)
    /\ Update(i, [Idle EXCEPT !.kind = "whipSlaves", !.pc = "deferReply",
                              !.user = u, !.thread = t])
    /\ UNCHANGED <<channels, roles, memberRoles, nextId, concurrent, faulty>>

deferReply(i) ==
    /\ inv[i].kind = "whipSlaves" /\ inv[i].pc = "deferReply"
    /\ Update(i, [inv[i] EXCEPT !.replies = Append(@, Msg("deferred", "", "")),
                                !.pc = "editReply"])
    /\ UNCHANGED <<channels, roles, memberRoles, nextId, concurrent, faulty>>

\* utils/isHelperThread: the channel is a thread of a subject's forum channel
isHelperThread(t) ==
    \E c \in channels : /\ c.id = t
                        /\ c.type = FORUM_CHANNEL_TYPE
                        /\ c.parentId = FindCategory(channels)

\* utils/threadToHelperRole: the helper role of the subject that owns the thread,
\* 0 (undefined) when there is none
helperThreadToRoleName(t) ==
    IF ~isHelperThread(t) THEN 0
    ELSE LET forum == CHOOSE c \in channels : c.id = t
             subject == Slice(forum.name, 2)
             named == {r \in roles : r.name = RoleName(subject)}
         IN  IF named = {} THEN 0
             ELSE (CHOOSE r \in named : \A q \in named : r.id <= q.id).id

\* the condition of `if (isHelperThread)`: the imported function itself, which is
\* an object and so truthy, whatever the channel
IsHelperThreadCondition(t) == TRUE

\* from the role lookup to the edited reply; reading role.id of undefined throws
editReply(i) ==
    /\ inv[i].kind = "whipSlaves" /\ inv[i].pc = "editReply"
    /\ LET role == helperThreadToRoleName(inv[i].thread)
       IN  IF IsHelperThreadCondition(inv[i].thread)
           THEN IF role = 0
                THEN Update(i, Throw(inv[i], "TypeError"))
                ELSE Update(i, Return([inv[i] EXCEPT
                        !.replies = Append(@, Msg("mention", role, "public"))]))
           ELSE Update(i, Return([inv[i] EXCEPT
                    !.replies = Append(@, Msg("refusal",
                        "Please don't whip the slaves outside of threads", "public"))]))
    /\ UNCHANGED <<channels, roles, memberRoles, nextId, concurrent, faulty>>

----------------------------------------------------------------------------
Next ==
    \/ \E i \in 1..MaxInv, o \in OptionObjects : StartCreateSubject(i, Moderator, o)
    \/ \E i \in 1..MaxInv : getOptions(i)
    \/ \E i \in 1..MaxInv : isSubjectNameUnique(i)
    \/ \E i \in 1..MaxInv : createCategory(i)
    \/ \E i \in 1..MaxInv : createSubjectForum(i)
    \/ \E i \in 1..MaxInv : createSubjectRole(i)
    \/ \E i \in 1..MaxInv : replyCreated(i)
    \/ \E i \in 1..MaxInv, u \in Users : StartBecomeHelper(i, u)
    \/ \E i \in 1..MaxInv : reply(i)
    \/ \E i \in 1..MaxInv, u \in Users : \E values \in SelectableValues(i) :
            awaitMessageComponent(i, u, values)
    \/ \E i \in 1..MaxInv : timeout(i)
    \/ \E i \in 1..MaxInv : add(i)
    \/ \E i \in 1..MaxInv : replyCongrats(i)
    \/ \E i \in 1..MaxInv : followUp(i)
    \/ \E i \in 1..MaxInv : \E t \in Threads : StartWhipSlaves(i, Moderator, t)
    \/ \E i \in 1..MaxInv : deferReply(i)
    \/ \E i \in 1..MaxInv : editReply(i)

\* invocations one after another, every remote call succeeding
Spec == Init /\ [][Next]_vars

\* invocations one after another; a channel creation, a role creation or a role
\* grant may be rejected by the platform
InitFail ==
    /\ channels = {}
    /\ roles = {[id |-> 1, name |-> <<"m", "o", "d">>, color |-> <<>>]}
    /\ memberRoles = [u \in Users |-> {}]
    /\ nextId = 2
    /\ inv = [i \in 1..MaxInv |-> Idle]
    /\ concurrent = FALSE
    /\ faulty = TRUE

SpecFail == InitFail /\ [][Next]_vars

\* invocations dispatched independently: their steps interleave at the awaits
InitConc ==
    /\ channels = {}
    /\ roles = {[id |-> 1, name |-> <<"m", "o", "d">>, color |-> <<>>]}
    /\ memberRoles = [u \in Users |-> {}]
    /\ nextId = 2
    /\ inv = [i \in 1..MaxInv |-> Idle]
    /\ concurrent = TRUE
    /\ faulty = FALSE

\* the steps of create-subject, the one command that resolves the category and
\* creates channels and roles
NextCreateSubject ==
    \/ \E i \in 1..MaxInv, o \in OptionObjects : StartCreateSubject(i, Moderator, o)
    \/ \E i \in 1..MaxInv : getOptions(i)
    \/ \E i \in 1..MaxInv : isSubjectNameUnique(i)
    \/ \E i \in 1..MaxInv : createCategory(i)
    \/ \E i \in 1..MaxInv : createSubjectForum(i)
    \/ \E i \in 1..MaxInv : createSubjectRole(i)
    \/ \E i \in 1..MaxInv : replyCreated(i)

SpecConc == InitConc /\ [][NextCreateSubject]_vars

----------------------------------------------------------------------------
(* Properties *)

Invocations == 1..MaxInv
CreateSubjects == {i \in Invocations : inv[i].kind = "createSubject"}
BecomeHelpers == {i \in Invocations : inv[i].kind = "becomeHelper"}
WhipSlaves == {i \in Invocations : inv[i].kind = "whipSlaves"}

Forums == {c \in channels : c.type = FORUM_CHANNEL_TYPE}
Categories == {c \in channels : c.type = CATEGORY_CHANNEL_TYPE
                                /\ c.name = CATEGORY_CHANNEL_NAME}

\* the subject a forum channel was created for: its name after the emoji and "-"
SubjectOf(c) == Slice(c.name, 2)

\* C1: a create-subject with valid options, when no channel under the category holds
\* the name (case-insensitive), once finished has created exactly one forum channel,
\* named emoji-name under the category, and exactly one role, named
\* lowercased-name-helper, and has sent one reply, which names both; the forum
\* channels and the roles of the guild are those the invocations created, one each
C1_CreatesOneChannelAndOneRole ==
    /\ \A i \in CreateSubjects :
         (Finished(i) /\ helperSchemaValid(inv[i].options) /\ ~inv[i].existed) =>
            /\ inv[i].outcome = "returned"
            /\ \E c \in channels :
                 /\ c.id = inv[i].forum
                 /\ c.type = FORUM_CHANNEL_TYPE
                 /\ c.name = inv[i].options.emoji \o <<"-">> \o inv[i].options.name
                 /\ c.parentId = inv[i].categoryChannelId
                 /\ c.parentId \in {k.id : k \in Categories}
            /\ \E r \in roles :
                 /\ r.id = inv[i].role
                 /\ r.name = ToLowerCase(inv[i].options.name) \o HelperSuffix
                 /\ inv[i].replies = <<Msg("created", inv[i].forum, r.name)>>
    /\ Cardinality(Forums) = Cardinality({i \in CreateSubjects : inv[i].forum # 0})
    /\ Cardinality(roles) = 1 + Cardinality({i \in CreateSubjects : inv[i].role # 0})
    /\ \A i, j \in CreateSubjects :
         (i # j /\ inv[i].forum # 0) =>
            inv[i].forum # inv[j].forum /\ inv[i].forum # inv[j].role

C1_Witness ==
    \E i \in CreateSubjects :
        /\ Finished(i) /\ ~inv[i].existed
        /\ inv[i].options.name = <<"A", "a">>
        /\ inv[i].forum # 0 /\ inv[i].role # 0
        /\ Len(inv[i].replies) = 1

\* C2: a create-subject whose name is held (case-insensitive) by a channel under the
\* category fails with "Subject already exists!" and creates no forum channel and no
\* role
C2_DuplicateIsRejected ==
    \A i \in CreateSubjects :
        inv[i].existed =>
            /\ inv[i].forum = 0 /\ inv[i].role = 0
            /\ Finished(i) =>
                 /\ inv[i].outcome = "threw"
                 /\ inv[i].error = "Subject already exists!"

\* C3: no two forum channels under the category are for the same subject name,
\* compared case-insensitively
C3_SubjectNamesUnique ==
    \A c, d \in Forums :
        (c # d /\ c.parentId = d.parentId) =>
            ToLowerCase(SubjectOf(c)) # ToLowerCase(SubjectOf(d))

\* C4: every step of a create-subject whose options fail validation leaves the
\* channels, the roles and the members' roles as they were; the invocation never gets
\* past getOptions, and it ends by throwing the validation error after one reply, the
\* error message
C4_InvalidOptionsNoSideEffect ==
    [][ \A i \in Invocations :
          ( /\ inv'[i].kind = "createSubject"
            /\ ~helperSchemaValid(inv'[i].options)
            /\ inv'[i] # inv[i] ) =>
             /\ channels' = channels /\ roles' = roles /\ memberRoles' = memberRoles
             /\ inv'[i].createdCategory = 0 /\ inv'[i].forum = 0 /\ inv'[i].role = 0
             /\ inv'[i].pc \in {"getOptions", "done"}
             /\ inv'[i].pc = "done" =>
                  /\ inv'[i].outcome = "threw" /\ inv'[i].error = "validation"
                  /\ inv'[i].replies = <<Msg("error", "validation", "ephemeral")>> ]_vars

C4_Witness ==
    \E i \in CreateSubjects :
        /\ Finished(i) /\ ~helperSchemaValid(inv[i].options)
        /\ inv[i].outcome = "threw"
        /\ Len(inv[i].replies) = 1
        /\ channels = {}

\* C5: of the become-helper calls, one after another, in which one user selected one
\* role, the first adds the role and every later one adds nothing and replies that
\* the role is already held
SameSelection(u, r) ==
    {i \in BecomeHelpers : Finished(i) /\ inv[i].user = u /\ inv[i].selectedRole = r}

C5_SecondCallDoesNotGrantAgain ==
    \A u \in Users : \A r \in {q.id : q \in roles} :
        LET S == SameSelection(u, r)
        IN  \A i \in S :
              IF \A j \in S : i <= j
              THEN /\ inv[i].adds = 1
                   /\ inv[i].outcome = "returned"
              ELSE /\ inv[i].adds = 0
                   /\ inv[i].outcome = "returned"
                   /\ inv[i].replies[Len(inv[i].replies)] = Msg("already", r, "ephemeral")

C5_Witness ==
    \E u \in Users : \E r \in {q.id : q \in roles} :
        /\ Cardinality(SameSelection(u, r)) = 2
        /\ r \in memberRoles[u]

\* C6: while become-helper waits, a selection by a user other than the requester is
\* not accepted (the handler goes on waiting, with nothing selected and nothing
\* replied) and no member's roles change
C6_ForeignSelectionIgnored ==
    [][ \A i \in Invocations : \A u \in Users : \A values \in SelectableValues(i) :
          (u # inv[i].user /\ awaitMessageComponent(i, u, values)) =>
             /\ memberRoles' = memberRoles
             /\ inv'[i].pc = "awaitMessageComponent"
             /\ inv'[i].values = inv[i].values
             /\ inv'[i].selectedRole = inv[i].selectedRole
             /\ inv'[i].replies = inv[i].replies ]_vars

C6_Witness ==
    \E i \in BecomeHelpers :
        /\ inv[i].ignored
        /\ inv[i].pc = "awaitMessageComponent"
        /\ inv[i].helperRoles # {}

\* C7: a become-helper that ends having sent its prompt and accepted no selection
\* (the 10 seconds passed) has added no role and has not thrown
C7_TimeoutEndsCleanly ==
    \A i \in BecomeHelpers :
        (Finished(i) /\ Len(inv[i].replies) = 1 /\ inv[i].replies[1].kind = "select") =>
            /\ inv[i].adds = 0
            /\ inv[i].outcome = "returned"

\* C8: invocations that run one after another resolve the category to one
\* identifier, at most one of them creates a category, and the guild never holds
\* two categories of the fixed name
C8_CategorySingleton ==
    /\ \A i, j \in Invocations :
         (inv[i].categoryChannelId # 0 /\ inv[j].categoryChannelId # 0) =>
            inv[i].categoryChannelId = inv[j].categoryChannelId
    /\ Cardinality({i \in Invocations : inv[i].createdCategory # 0}) <= 1
    /\ Cardinality(Categories) <= 1
    /\ \A i \in Invocations :
         inv[i].categoryChannelId # 0 => inv[i].categoryChannelId = FindCategory(channels)

C8_Witness ==
    \E i, j \in CreateSubjects :
        /\ i < j /\ Finished(i) /\ Finished(j)
        /\ inv[i].createdCategory # 0
        /\ inv[j].createdCategory = 0
        /\ inv[j].categoryChannelId = inv[i].createdCategory

\* C9: no step deletes or renames a channel or a role, or takes a role from a
\* member: the channels, the roles and every member's roles only grow
C9_OnlyGrows ==
    [][ /\ channels \subseteq channels'
        /\ roles \subseteq roles'
        /\ \A u \in Users : memberRoles[u] \subseteq memberRoles'[u] ]_vars

C9_Witness ==
    /\ Cardinality(Forums) >= 2
    /\ Cardinality(roles) >= 3
    /\ \E u \in Users : memberRoles[u] # {}

\* C10: a whip-slaves invoked in a channel that is no helper thread ends with the
\* refusal as its reply and without a role mention
C10_RefusalOutsideHelperThreads ==
    \A i \in WhipSlaves :
        (Finished(i) /\ ~isHelperThread(inv[i].thread)) =>
            /\ \E k \in 1..Len(inv[i].replies) : inv[i].replies[k].kind = "refusal"
            /\ \A k \in 1..Len(inv[i].replies) : inv[i].replies[k].kind # "mention"

\* C11: create-subject creates the forum channel before the role, and does not undo
\* it: when the channel was created and the role creation was rejected, the handler
\* ends by throwing that failure, has sent no reply, and the channel stays in the
\* guild, with no role created by the invocation
C11_NoRollback ==
    \A i \in CreateSubjects :
        /\ inv[i].role # 0 => (inv[i].forum # 0 /\ inv[i].forum < inv[i].role)
        /\ inv[i].pc \in {"createSubjectRole", "replyCreated"} => inv[i].forum # 0
        /\ (Finished(i) /\ inv[i].forum # 0 /\ inv[i].role = 0) =>
              /\ inv[i].outcome = "threw" /\ inv[i].error = "remote"
              /\ inv[i].replies = <<>>
              /\ \E c \in Forums :
                   /\ c.id = inv[i].forum
                   /\ c.name = ForumName(inv[i].options.name, inv[i].options.emoji)
              /\ \A r \in roles : r.id # inv[i].role

C11_Witness ==
    \E i, j \in CreateSubjects :
        /\ i < j /\ Finished(i) /\ Finished(j)
        /\ inv[i].forum # 0 /\ inv[i].role = 0
        /\ inv[i].outcome = "threw"
        /\ \E c \in Forums : c.id = inv[i].forum
        /\ ~(\E r \in roles : r.name = RoleName(inv[i].options.name))

\* an accepted selection is followed at once by the deleteReply of the prompt
Accepted(i) == \E k \in 1..Len(inv[i].replies) : inv[i].replies[k].kind = "deleteReply"

Sent(i, kind) == \E k \in 1..Len(inv[i].replies) : inv[i].replies[k].kind = kind

\* C12: a become-helper in which a selection of the requester was accepted, with one
\* value or with none, ends either with the "already held" reply and no role added, or
\* with the role added, then the private confirmation, then the public announcement;
\* the announcement is never sent without the role having been added
C12_SelectionEndsHeldOrGranted ==
    \A i \in BecomeHelpers :
        /\ (Accepted(i) /\ Finished(i)) =>
              \/ /\ inv[i].adds = 0
                 /\ inv[i].outcome = "returned"
                 /\ Len(inv[i].replies) = 3
                 /\ inv[i].replies[3] = Msg("already", inv[i].selectedRole, "ephemeral")
              \/ /\ inv[i].adds = 1
                 /\ inv[i].outcome = "returned"
                 /\ Len(inv[i].replies) = 4
                 /\ inv[i].replies[3] = Msg("congrats", inv[i].selectedRole, "ephemeral")
                 /\ inv[i].replies[4] = Msg("announce", inv[i].selectedRole, "public")
        /\ (Sent(i, "congrats") \/ Sent(i, "announce")) => inv[i].adds = 1

\* C13: nothing guards the category against invocations that overlap: every
\* invocation that found no category creates one of its own and uses it, so the
\* guild holds as many categories of the fixed name as invocations created one, and
\* two invocations may both be creating one
C13_CategoryRace ==
    /\ Cardinality(Categories) = Cardinality({i \in Invocations : inv[i].createdCategory # 0})
    /\ \A i \in Invocations :
         inv[i].createdCategory # 0 =>
            /\ inv[i].categoryChannelId = inv[i].createdCategory
            /\ \E c \in Categories : c.id = inv[i].createdCategory
    /\ \A i, j \in Invocations :
         (i # j /\ inv[i].createdCategory # 0) =>
            inv[i].createdCategory # inv[j].createdCategory

C13_Witness ==
    /\ Cardinality(Categories) = 2
    /\ \E i, j \in CreateSubjects :
         /\ i # j /\ Finished(i) /\ Finished(j)
         /\ inv[i].createdCategory # 0 /\ inv[j].createdCategory # 0
         /\ inv[i].outcome = "returned" /\ inv[j].outcome = "returned"

\* the option values of the select menu an invocation sent
Offered(r) == r.replies[1].a

\* C14: when become-helper sends its prompt, the option values are exactly the ids
\* of the roles that then exist with a name ending in "-helper", among them the role
\* of every create-subject that has succeeded, and the requester can select each
C14_PromptOffersHelperRoles ==
    [][ \A i \in Invocations :
          (inv[i].pc = "reply" /\ inv'[i].pc = "awaitMessageComponent") =>
             /\ Offered(inv'[i]) =
                  {r.id : r \in {q \in roles : EndsWith(q.name, HelperSuffix)}}
             /\ \A j \in CreateSubjects :
                  inv[j].outcome = "returned" => inv[j].role \in Offered(inv'[i])
             /\ {<<id>> : id \in Offered(inv'[i])} =
                  {<<h.id>> : h \in inv'[i].helperRoles} ]_vars

C14_Witness ==
    \E i \in BecomeHelpers :
        /\ inv[i].pc = "awaitMessageComponent"
        /\ Cardinality(Offered(inv[i])) = 2
        /\ \A j \in CreateSubjects : inv[j].role \in Offered(inv[i])
        /\ Cardinality(roles) = 3

\* C15: a step that changes the roles of any member is the role add of one
\* become-helper invocation, its only one; it gives the requester, and nobody else,
\* one role, which is the first selected value, was offered in the prompt, and has a
\* name ending in "-helper"
C15_GrantsOnlySelectedHelperRole ==
    [][ memberRoles' # memberRoles =>
          \E i \in Invocations :
             /\ inv[i].kind = "becomeHelper"
             /\ inv[i].adds = 0 /\ inv'[i].adds = 1
             /\ Len(inv[i].values) = 1
             /\ inv[i].values[1] \in Offered(inv[i])
             /\ \E q \in roles : /\ q.id = inv[i].values[1]
                                 /\ EndsWith(q.name, HelperSuffix)
             /\ memberRoles' = [memberRoles EXCEPT
                    ![inv[i].user] = @ \cup {inv[i].values[1]}]
             /\ \A j \in Invocations \ {i} : inv'[j] = inv[j] ]_vars

C15_Witness ==
    \E i \in BecomeHelpers :
        /\ Finished(i) /\ inv[i].adds = 1
        /\ inv[i].user = "u2"
        /\ Cardinality(Offered(inv[i])) = 2
        /\ \E other \in Offered(inv[i]) : other < inv[i].values[1]
        /\ memberRoles = [u \in Users |-> IF u = "u2" THEN {inv[i].values[1]} ELSE {}]

\* C16: a create-subject replies to its interaction once at most, whichever way it
\* ends: with an error reply sent (validation, duplicate) it has thrown and sent
\* nothing else, with a remote call rejected it has sent nothing, and the success
\* reply is the only reply of an invocation that returned
C16_AtMostOneReply ==
    \A i \in CreateSubjects :
        /\ Len(inv[i].replies) <= 1
        /\ (Sent(i, "error") \/ Sent(i, "duplicate")) =>
              /\ Finished(i) /\ inv[i].outcome = "threw"
              /\ ~Sent(i, "created")
        /\ (Finished(i) /\ inv[i].error = "remote") => inv[i].replies = <<>>
        /\ Sent(i, "created") => (Finished(i) /\ inv[i].outcome = "returned")
        /\ (Finished(i) /\ inv[i].outcome = "threw" /\ inv[i].error # "remote") =>
              Len(inv[i].replies) = 1

C16_Witness ==
    \E i, j \in CreateSubjects :
        /\ Finished(i) /\ Finished(j)
        /\ inv[i].outcome = "threw" /\ inv[i].replies = <<Msg("error", "validation", "ephemeral")>>
        /\ inv[j].outcome = "threw" /\ inv[j].error = "remote" /\ inv[j].replies = <<>>
        /\ inv[j].forum # 0

====
